---- MODULE Spec2Model ----
(***************************************************************************)
(* Trampoline toy: the two page scripts of the repository.                 *)
(*   "preview"  src/app.js            rigid trampoline, placement preview   *)
(*   "elastic"  src/unnamed/part_000  chain trampoline, immediate spawn     *)
(* One page loads one script; `variant` says which one is running.         *)
(* The physics/render library (Matter) is external: a tick of its runner   *)
(* is modelled by its effect on the positions of the dynamic shapes, which *)
(* fall one row per tick (gravity is positive for every preset and acts on *)
(* sensor bodies too).                                                     *)
(***************************************************************************)
EXTENDS Integers, Sequences, FiniteSets, TLC

VARIABLES
  variant,        \* which script the page runs
  innerWidth,     \* window.innerWidth
  innerHeight,    \* window.innerHeight
  canvasWidth,    \* render.canvas.width
  canvasHeight,   \* render.canvas.height
  gravity,        \* engine.gravity.y
  background,     \* render.options.background
  planetSelect,   \* planetSelect.value
  massSlider,     \* massSlider.value (a string of characters)
  sizeSlider,     \* sizeSlider.value (a string of characters)
  massValueLabel, \* massValueLabel.textContent
  sizeValueLabel, \* sizeValueLabel.textContent
  selectedShape,  \* app.js selectedShape
  shapeButtons,   \* the .shape-btn elements by data-shape: class 'selected', aria-pressed
  isPlacing,      \* app.js isPlacing (declared, never written)
  previewBody,    \* app.js previewBody: a body id, NullId when null
  mouseDown,      \* app.js mouseDown
  world,          \* Composite.allBodies(world): the set of bodies
  constraints,    \* the constraints of the world
  trampoline,     \* app.js trampoline: a body id, NullId when undefined
  ground,         \* app.js ground: a body id, NullId when undefined
  nextId,         \* the number of the next shape body (its id is ShapeId(nextId))
  nextSurfaceId,  \* the id of the next surface body
  rebuilds,       \* how many resize events rebuilt the surface
  lastPointer,    \* <<pos>>: the position last given to updatePreview in this gesture
  released,       \* {[preview, real, pointer]}: what the last handler committed
  cancelled,      \* the last handler was a contextmenu that removed a preview
  factory         \* a direct call of a shape factory: its arguments and its result

vars == <<variant, innerWidth, innerHeight, canvasWidth, canvasHeight, gravity,
          background, planetSelect, massSlider, sizeSlider, massValueLabel,
          sizeValueLabel, selectedShape, shapeButtons, isPlacing, previewBody,
          mouseDown,
          world, constraints, trampoline, ground,
          nextId, nextSurfaceId, rebuilds, lastPointer, released, cancelled,
          factory>>

----------------------------------------------------------------------------
(* Bounds of the model *)

MaxCreated == 2       \* shape bodies the app.js handlers create
MaxResizes == 1       \* resize events that rebuild the surface
MaxSpawned == 1       \* shape bodies the part_000 handlers create
MaxY == 1             \* the row at which the model stops following a falling body

Variants == {"preview", "elastic"}
LoadWidth == 800      \* the window when the page loads
LoadHeight == 600
WindowWidths == {LoadWidth}     \* sizes a resize event reports
WindowHeights == {LoadHeight}
Positions == {[x |-> 0, y |-> 0], [x |-> 1, y |-> 1]}
SliderValues == {<<"6">>, <<"1", "0">>}
PlanetInputs == {"earth", "moon", "jupiter", "mars"}
ShapeButtons == {"circle", "triangle"}   \* data-shape of the buttons clicked
Buttons == {0, 2}
RandomSamples == {0, 1}   \* Math.random() sampled at 0 and at 1/2, in halves

----------------------------------------------------------------------------
(* Values of the page *)

NullId == 0
Undefined == "undefined"
NaN == 0 - 1
uiHeight == 100
DefaultPlanet == "earth"
DefaultSlider == <<"6">>

\* app.js planetData
PlanetNames == {"earth", "moon", "jupiter"}

planetData ==
  [p \in PlanetNames |->
     CASE p = "earth" ->
            [gravity |-> "1",
             background |-> "linear-gradient(to bottom, #87ceeb 0%, #1e3c72 100%)"]
       [] p = "moon" ->
            [gravity |-> "0.165",
             background |-> "linear-gradient(to bottom, #999999 0%, #222222 100%)"]
       [] p = "jupiter" ->
            [gravity |-> "2.528",
             background |-> "linear-gradient(to bottom, #d4af37 0%, #7b5100 100%)"]]

\* part_000 gravityByPlanet; a missing key reads as undefined
gravityByPlanet(p) ==
  CASE p = "earth" -> "1"
    [] p = "moon" -> "0.165"
    [] p = "jupiter" -> "2.528"
    [] OTHER -> Undefined

\* the value of one decimal digit character
DigitVal(c) ==
  CASE c = "0" -> 0 [] c = "1" -> 1 [] c = "2" -> 2 [] c = "3" -> 3
    [] c = "4" -> 4 [] c = "5" -> 5 [] c = "6" -> 6 [] c = "7" -> 7
    [] c = "8" -> 8 [] c = "9" -> 9

\* unary plus on a slider value: the number its digits spell
RECURSIVE ToNumber(_)
ToNumber(s) ==
  IF s = <<>> THEN 0
  ELSE 10 * ToNumber(SubSeq(s, 1, Len(s) - 1)) + DigitVal(s[Len(s)])

IsDigit(c) == c \in {"0", "1", "2", "3", "4", "5", "6", "7", "8", "9"}

\* the longest prefix of s made of digits
RECURSIVE DigitPrefix(_)
DigitPrefix(s) ==
  IF s = <<>> \/ ~IsDigit(Head(s)) THEN <<>>
  ELSE <<Head(s)>> \o DigitPrefix(Tail(s))

\* parseInt on a slider value: the integer its leading digits spell
parseInt(s) == IF DigitPrefix(s) = <<>> THEN NaN ELSE ToNumber(DigitPrefix(s))

----------------------------------------------------------------------------
(* Bodies *)

\* n pixels, in the unit of the geometry: thousandths of a pixel
Px(n) == 1000 * n

\* Math.sqrt(3) and Math.sin(Math.PI / 3), in thousandths
Sqrt3Milli == 1732
SinPi3Milli == 866

\* Matter Bodies.circle(x, y, radius), Bodies.rectangle(x, y, width, height)
\* and Bodies.fromVertices(x, y, vertices): the geometry about the centre
circle(radius) == [type |-> "circle", circleRadius |-> radius]
rectangle(width, height) == [type |-> "rectangle", width |-> width, height |-> height]
fromVertices(vertices) == [type |-> "polygon", vertices |-> vertices]

\* a triangle as wide as twice the size
createTriangleVerticesWide(size) ==
  LET h == (size * Sqrt3Milli) \div 2
  IN <<[x |-> 0, y |-> 0 - h \div 2],
       [x |-> 0 - Px(size), y |-> h \div 2],
       [x |-> Px(size), y |-> h \div 2]>>

\* app.js createTriangleVertices(size), size in pixels
createTriangleVertices(size) ==
  LET h == (size * Sqrt3Milli) \div 2
  IN <<[x |-> 0, y |-> 0 - h \div 2],
       [x |-> 0 - Px(size) \div 2, y |-> h \div 2],
       [x |-> Px(size) \div 2, y |-> h \div 2]>>

\* a createBody whose default case builds a square
createBodyDefaultSquare(id, x, y, shape, mass, size) ==
  [id |-> id, label |-> "shape",
   kind |-> CASE shape = "circle" -> "circle"
              [] shape = "square" -> "square"
              [] shape = "triangle" -> "triangle"
              [] OTHER -> "square",
   geometry |-> CASE shape = "circle" -> circle(Px(size) \div 2)
                  [] shape = "square" -> rectangle(Px(size), Px(size))
                  [] shape = "triangle" -> fromVertices(createTriangleVertices(size))
                  [] OTHER -> rectangle(Px(size), Px(size)),
   mass |-> mass, size |-> size, x |-> x, y |-> y,
   isStatic |-> FALSE, isSensor |-> FALSE,
   restitution |-> "0.9", fillStyle |-> "#3498db"]

\* app.js createBody: every kind other than square and triangle is a circle
createBody(id, x, y, shape, mass, size) ==
  [id |-> id, label |-> "shape",
   kind |-> CASE shape = "circle" -> "circle"
              [] shape = "square" -> "square"
              [] shape = "triangle" -> "triangle"
              [] OTHER -> "circle",
   geometry |-> CASE shape = "circle" -> circle(Px(size) \div 2)
                  [] shape = "square" -> rectangle(Px(size), Px(size))
                  [] shape = "triangle" -> fromVertices(createTriangleVertices(size))
                  [] OTHER -> circle(Px(size) \div 2),
   mass |-> mass, size |-> size, x |-> x, y |-> y,
   isStatic |-> FALSE, isSensor |-> FALSE,
   restitution |-> "0.9", fillStyle |-> "#3498db"]

\* a static rectangle of the surface (the mass of surface bodies is not modelled)
StaticRect(id, label, x, y, w, h, restitution, fill) ==
  [id |-> id, label |-> label, kind |-> "rectangle",
   mass |-> 0, size |-> w, x |-> x, y |-> y,
   isStatic |-> TRUE, isSensor |-> FALSE,
   restitution |-> restitution, fillStyle |-> fill]

\* object identity: shapes and surface bodies never share an id
ShapeId(n) == 0 - n

BodyById(w, id) == CHOOSE b \in w : b.id = id
HasId(w, id) == \E b \in w : b.id = id

\* Composite.remove(world, body)
CompositeRemove(w, id) == {b \in w : b.id # id}

PreviewBodies == {b \in world : b.isSensor}
RealBodies == {b \in world : b.label = "shape" /\ ~b.isSensor}
TrampolineBodies == {b \in world : b.label = "trampoline"}
GroundBodies == {b \in world : b.label = "ground"}

----------------------------------------------------------------------------
(* The surface *)

\* createTrampoline without the removal of the old surface
createTrampolineNoRemove(s, iw, ch) ==
  LET yPos == ch - 22 - 10
      t == StaticRect(s.nextSurfaceId, "trampoline", iw \div 2, yPos, iw \div 2, 22,
                      "1.2", "#27ae60")
      g == StaticRect(s.nextSurfaceId + 1, "ground", iw \div 2, yPos + 50, iw, 60,
                      "0", "#555555")
  IN [world |-> s.world \cup {t, g}, trampoline |-> t.id, ground |-> g.id,
      nextSurfaceId |-> s.nextSurfaceId + 2]

\* a createTrampoline that clears the world before it adds the new surface
createTrampolineClears(s, iw, ch) ==
  LET yPos == ch - 22 - 10
      t == StaticRect(s.nextSurfaceId, "trampoline", iw \div 2, yPos, iw \div 2, 22,
                      "1.2", "#27ae60")
      g == StaticRect(s.nextSurfaceId + 1, "ground", iw \div 2, yPos + 50, iw, 60,
                      "0", "#555555")
  IN [world |-> {t, g}, trampoline |-> t.id, ground |-> g.id,
      nextSurfaceId |-> s.nextSurfaceId + 2]

\* app.js createTrampoline, on the surface state
\* s = [world, trampoline, ground, nextSurfaceId]
createTrampoline(s, iw, ch) ==
  LET width == iw \div 2
      height == 22
      yPos == ch - height - 10
      w1 == IF s.trampoline # NullId THEN CompositeRemove(s.world, s.trampoline)
            ELSE s.world
      w2 == IF s.ground # NullId THEN CompositeRemove(w1, s.ground) ELSE w1
      t == StaticRect(s.nextSurfaceId, "trampoline", iw \div 2, yPos, width, height,
                      "1.2", "#27ae60")
      g == StaticRect(s.nextSurfaceId + 1, "ground", iw \div 2, yPos + 50, iw, 60,
                      "0", "#555555")
  IN [world |-> w2 \cup {t, g}, trampoline |-> t.id, ground |-> g.id,
      nextSurfaceId |-> s.nextSurfaceId + 2]

\* part_000 chain trampoline
trampolineSegments == 15
trampolineHeight == 20
trampolineWidth(iw) == (iw * 6) \div 10
segmentWidth(iw) == trampolineWidth(iw) \div trampolineSegments
trampolineY(ch) == ch - trampolineHeight * 2

trampolineBase(iw, ch) ==
  StaticRect(1, "base", iw \div 2, trampolineY(ch) + trampolineHeight \div 2,
             trampolineWidth(iw), trampolineHeight, "0", "#27ae60")

\* the segments pushed by the loop for (i = 0; i <= trampolineSegments; i++)
trampolineBodies(iw, ch) ==
  [i \in 0..trampolineSegments |->
     [id |-> 2 + i, label |-> "segment", kind |-> "rectangle",
      mass |-> 0, size |-> segmentWidth(iw) - 2,
      x |-> iw \div 2 - trampolineWidth(iw) \div 2 + i * segmentWidth(iw),
      y |-> trampolineY(ch),
      isStatic |-> FALSE, isSensor |-> FALSE,
      restitution |-> "0.9", fillStyle |-> "#2ecc71"]]

\* the springs pushed by the loop for (i = 0; i < trampolineSegments; i++)
trampolineConstraints(iw, ch) ==
  [i \in 0..(trampolineSegments - 1) |->
     [label |-> "spring", bodyA |-> trampolineBodies(iw, ch)[i].id,
      bodyB |-> trampolineBodies(iw, ch)[i + 1].id,
      length |-> segmentWidth(iw), stiffness |-> "0.5",
      pointA |-> [x |-> 0, y |-> 0]]]

leftAnchor(iw, ch) ==
  [label |-> "anchor", bodyA |-> NullId,
   bodyB |-> trampolineBodies(iw, ch)[0].id, length |-> 0, stiffness |-> "1",
   pointA |-> [x |-> iw \div 2 - trampolineWidth(iw) \div 2, y |-> trampolineY(ch)]]

\* a right anchor on the segment before the last
rightAnchorBeforeLast(iw, ch) ==
  [label |-> "anchor", bodyA |-> NullId,
   bodyB |-> trampolineBodies(iw, ch)[trampolineSegments - 1].id, length |-> 0,
   stiffness |-> "1",
   pointA |-> [x |-> iw \div 2 + trampolineWidth(iw) \div 2, y |-> trampolineY(ch)]]

rightAnchor(iw, ch) ==
  [label |-> "anchor", bodyA |-> NullId,
   bodyB |-> trampolineBodies(iw, ch)[trampolineSegments].id, length |-> 0,
   stiffness |-> "1",
   pointA |-> [x |-> iw \div 2 + trampolineWidth(iw) \div 2, y |-> trampolineY(ch)]]

mouseConstraint ==
  [label |-> "mouseConstraint", bodyA |-> NullId, bodyB |-> NullId, length |-> 0,
   stiffness |-> "0.2", pointA |-> [x |-> 0, y |-> 0]]

Range(f) == {f[i] : i \in DOMAIN f}

----------------------------------------------------------------------------
(* Startup *)

\* shape bodies created so far
Created == nextId - 1

\* the shape buttons as the page markup has them: the circle button selected
MarkupButtons ==
  [b \in ShapeButtons |->
     [selected |-> b = "circle",
      ariaPressed |-> IF b = "circle" THEN "true" ELSE "false"]]

InitCommon ==
  /\ innerWidth = LoadWidth
  /\ innerHeight = LoadHeight
  /\ canvasWidth = innerWidth
  /\ canvasHeight = innerHeight - uiHeight
  /\ planetSelect = DefaultPlanet
  /\ massSlider = DefaultSlider
  /\ sizeSlider = DefaultSlider
  /\ massValueLabel = massSlider
  /\ sizeValueLabel = sizeSlider
  /\ selectedShape = "circle"
  /\ shapeButtons = MarkupButtons
  /\ isPlacing = FALSE
  /\ previewBody = NullId
  /\ mouseDown = FALSE
  /\ lastPointer = <<>>
  /\ released = {}
  /\ cancelled = FALSE
  /\ nextId = 1
  /\ rebuilds = 0

\* app.js top level: createTrampoline() and then resize()
InitPreview ==
  /\ variant = "preview"
  /\ InitCommon
  /\ gravity = planetData["earth"].gravity
  /\ background = planetData["earth"].background
  /\ LET s0 == [world |-> {}, trampoline |-> NullId, ground |-> NullId,
                nextSurfaceId |-> 1]
         s1 == createTrampoline(s0, innerWidth, canvasHeight)
         s2 == createTrampoline(s1, innerWidth, canvasHeight)
     IN /\ world = s2.world
        /\ trampoline = s2.trampoline
        /\ ground = s2.ground
        /\ nextSurfaceId = s2.nextSurfaceId
  /\ constraints = {mouseConstraint}

\* part_000 top level
InitElastic ==
  /\ variant = "elastic"
  /\ InitCommon
  /\ gravity = gravityByPlanet("earth")
  /\ background = "transparent"
  /\ world = {trampolineBase(innerWidth, canvasHeight)}
               \cup Range(trampolineBodies(innerWidth, canvasHeight))
  /\ constraints = Range(trampolineConstraints(innerWidth, canvasHeight))
                     \cup {leftAnchor(innerWidth, canvasHeight),
                           rightAnchor(innerWidth, canvasHeight), mouseConstraint}
  /\ trampoline = NullId
  /\ ground = NullId
  /\ nextSurfaceId = trampolineSegments + 3

\* no direct call of a factory is pending
NoCall == <<>>

Init == (InitPreview \/ InitElastic) /\ factory = NoCall

----------------------------------------------------------------------------
(* Variable groups *)

windowVars == <<innerWidth, innerHeight, canvasWidth, canvasHeight>>
planetVars == <<gravity, background, planetSelect>>
sliderVars == <<massSlider, sizeSlider, massValueLabel, sizeValueLabel>>
surfaceVars == <<trampoline, ground, constraints, nextSurfaceId, rebuilds>>
placeVars == <<previewBody, mouseDown, lastPointer>>
fixedVars == <<variant, isPlacing, factory>>
shapeVars == <<selectedShape, shapeButtons>>

----------------------------------------------------------------------------
(* app.js: the preview *)

\* Matter.Body.setPosition(body, pos)
setPosition(w, id, pos) ==
  {IF b.id = id THEN [b EXCEPT !.x = pos.x, !.y = pos.y] ELSE b : b \in w}

\* app.js updatePreview(pos)
updatePreview(pos) ==
  IF previewBody = NullId
  THEN /\ previewBody' = ShapeId(nextId)
       /\ world' = world \cup
            {[createBody(ShapeId(nextId), pos.x, pos.y, selectedShape,
                         ToNumber(massSlider), ToNumber(sizeSlider))
               EXCEPT !.isSensor = TRUE, !.fillStyle = "rgba(52, 152, 219, 0.5)"]}
       /\ nextId' = nextId + 1
  ELSE /\ world' = setPosition(world, previewBody, pos)
       /\ UNCHANGED <<previewBody, nextId>>

\* removePreview that forgets the body in the world
removePreviewKeepsBody ==
  IF previewBody # NullId
  THEN /\ world' = world
       /\ previewBody' = NullId
  ELSE UNCHANGED <<world, previewBody>>

\* app.js removePreview()
removePreview ==
  IF previewBody # NullId
  THEN /\ world' = CompositeRemove(world, previewBody)
       /\ previewBody' = NullId
  ELSE UNCHANGED <<world, previewBody>>

\* a release that commits what the preview was created with
commitPreviewCached ==
  /\ mouseDown' = FALSE
  /\ IF previewBody # NullId
     THEN LET pos == BodyById(world, previewBody)
              realBody == createBody(ShapeId(nextId), pos.x, pos.y, selectedShape,
                                     pos.mass, pos.size)
          IN /\ world' = CompositeRemove(world, previewBody) \cup {realBody}
             /\ previewBody' = NullId
             /\ nextId' = nextId + 1
             /\ released' = {[preview |-> pos, real |-> realBody,
                               pointer |-> lastPointer]}
     ELSE /\ UNCHANGED <<world, previewBody, nextId>>
          /\ released' = {}
  /\ lastPointer' = <<>>

\* a release that leaves the preview in the world
commitPreviewKeepsPreview ==
  /\ mouseDown' = FALSE
  /\ IF previewBody # NullId
     THEN LET pos == BodyById(world, previewBody)
              realBody == createBody(ShapeId(nextId), pos.x, pos.y, selectedShape,
                                     ToNumber(massSlider), ToNumber(sizeSlider))
          IN /\ world' = world \cup {realBody}
             /\ previewBody' = NullId
             /\ nextId' = nextId + 1
             /\ released' = {[preview |-> pos, real |-> realBody,
                               pointer |-> lastPointer]}
     ELSE /\ UNCHANGED <<world, previewBody, nextId>>
          /\ released' = {}
  /\ lastPointer' = <<>>

\* the body of the mouseup and touchend handlers once the pointer is known down
commitPreview ==
  /\ mouseDown' = FALSE
  /\ IF previewBody # NullId
     THEN LET pos == BodyById(world, previewBody)
              realBody == createBody(ShapeId(nextId), pos.x, pos.y, selectedShape,
                                     ToNumber(massSlider), ToNumber(sizeSlider))
          IN /\ world' = CompositeRemove(world, previewBody) \cup {realBody}
             /\ previewBody' = NullId
             /\ nextId' = nextId + 1
             /\ released' = {[preview |-> pos, real |-> realBody,
                               pointer |-> lastPointer]}
     ELSE /\ UNCHANGED <<world, previewBody, nextId>>
          /\ released' = {}
  /\ lastPointer' = <<>>

\* the handler may still create n bodies
CanCreate(n) ==
  Created + n <= (IF variant = "preview" THEN MaxCreated ELSE MaxSpawned)

\* mousedown listener; p is mouse.position, set from the event by Matter's
\* listener, which Mouse.create registered first (previewPos, an alias of
\* mouse.position that no code reads, is left out)
MouseDown(button, p) ==
  /\ variant = "preview"
  /\ (button = 0 /\ previewBody = NullId) => CanCreate(1)
  /\ released' = {}
  /\ cancelled' = FALSE
  /\ IF button = 0
     THEN /\ mouseDown' = TRUE
          /\ updatePreview(p)
          /\ lastPointer' = <<p>>
     ELSE UNCHANGED <<mouseDown, previewBody, world, nextId, lastPointer>>
  /\ UNCHANGED <<fixedVars, windowVars, planetVars, sliderVars, shapeVars,
                 surfaceVars>>

\* a mousemove listener that replaces the preview by a new one at p
MouseMoveRecreates(p) ==
  /\ variant = "preview"
  /\ released' = {}
  /\ cancelled' = FALSE
  /\ IF mouseDown
     THEN /\ CanCreate(1)
          /\ previewBody' = ShapeId(nextId)
          /\ world' = CompositeRemove(world, previewBody) \cup
               {[createBody(ShapeId(nextId), p.x, p.y, selectedShape,
                            ToNumber(massSlider), ToNumber(sizeSlider))
                  EXCEPT !.isSensor = TRUE, !.fillStyle = "rgba(52, 152, 219, 0.5)"]}
          /\ nextId' = nextId + 1
          /\ lastPointer' = <<p>>
     ELSE UNCHANGED <<previewBody, world, nextId, lastPointer>>
  /\ UNCHANGED <<fixedVars, windowVars, planetVars, sliderVars, shapeVars,
                 surfaceVars, mouseDown>>

\* mousemove listener
MouseMove(p) ==
  /\ variant = "preview"
  /\ released' = {}
  /\ cancelled' = FALSE
  /\ IF mouseDown
     THEN /\ (previewBody = NullId => CanCreate(1))
          /\ updatePreview(p)
          /\ lastPointer' = <<p>>
     ELSE UNCHANGED <<previewBody, world, nextId, lastPointer>>
  /\ UNCHANGED <<fixedVars, windowVars, planetVars, sliderVars, shapeVars,
                 surfaceVars, mouseDown>>

\* mouseup listener
MouseUp(button) ==
  /\ variant = "preview"
  /\ (button = 0 /\ mouseDown /\ previewBody # NullId) => CanCreate(1)
  /\ cancelled' = FALSE
  /\ IF button = 0 /\ mouseDown
     THEN commitPreview
     ELSE /\ released' = {}
          /\ UNCHANGED <<placeVars, world, nextId>>
  /\ UNCHANGED <<fixedVars, windowVars, planetVars, sliderVars, shapeVars,
                 surfaceVars>>

\* a contextmenu listener that leaves mouseDown set
ContextMenuStaysDown ==
  /\ variant = "preview"
  /\ released' = {}
  /\ IF previewBody # NullId
     THEN /\ removePreview
          /\ lastPointer' = <<>>
          /\ cancelled' = TRUE
     ELSE /\ UNCHANGED <<world, previewBody, lastPointer>>
          /\ cancelled' = FALSE
  /\ UNCHANGED <<fixedVars, windowVars, planetVars, sliderVars, shapeVars,
                 surfaceVars, nextId, mouseDown>>

\* contextmenu listener
ContextMenu ==
  /\ variant = "preview"
  /\ released' = {}
  /\ IF previewBody # NullId
     THEN /\ removePreview
          /\ mouseDown' = FALSE
          /\ lastPointer' = <<>>
          /\ cancelled' = TRUE
     ELSE /\ UNCHANGED <<world, previewBody, mouseDown, lastPointer>>
          /\ cancelled' = FALSE
  /\ UNCHANGED <<fixedVars, windowVars, planetVars, sliderVars, shapeVars,
                 surfaceVars, nextId>>

\* a touchstart listener that sets mouseDown before it counts the touches
TouchStartSetsFlagFirst(n, p) ==
  /\ variant = "preview"
  /\ (n = 1 /\ previewBody = NullId) => CanCreate(1)
  /\ released' = {}
  /\ cancelled' = FALSE
  /\ mouseDown' = TRUE
  /\ IF n = 1
     THEN /\ updatePreview(p)
          /\ lastPointer' = <<p>>
     ELSE UNCHANGED <<previewBody, world, nextId, lastPointer>>
  /\ UNCHANGED <<fixedVars, windowVars, planetVars, sliderVars, shapeVars,
                 surfaceVars>>

\* touchstart listener; p is touches[0] relative to the canvas
TouchStart(n, p) ==
  /\ variant = "preview"
  /\ (n = 1 /\ previewBody = NullId) => CanCreate(1)
  /\ released' = {}
  /\ cancelled' = FALSE
  /\ IF n = 1
     THEN /\ mouseDown' = TRUE
          /\ updatePreview(p)
          /\ lastPointer' = <<p>>
     ELSE UNCHANGED <<mouseDown, previewBody, world, nextId, lastPointer>>
  /\ UNCHANGED <<fixedVars, windowVars, planetVars, sliderVars, shapeVars,
                 surfaceVars>>

\* a touchmove listener that does not test mouseDown
TouchMoveAlways(n, p) ==
  /\ variant = "preview"
  /\ released' = {}
  /\ cancelled' = FALSE
  /\ IF n = 1
     THEN /\ (previewBody = NullId => CanCreate(1))
          /\ updatePreview(p)
          /\ lastPointer' = <<p>>
     ELSE UNCHANGED <<previewBody, world, nextId, lastPointer>>
  /\ UNCHANGED <<fixedVars, windowVars, planetVars, sliderVars, shapeVars,
                 surfaceVars, mouseDown>>

\* touchmove listener
TouchMove(n, p) ==
  /\ variant = "preview"
  /\ released' = {}
  /\ cancelled' = FALSE
  /\ IF mouseDown /\ n = 1
     THEN /\ (previewBody = NullId => CanCreate(1))
          /\ updatePreview(p)
          /\ lastPointer' = <<p>>
     ELSE UNCHANGED <<previewBody, world, nextId, lastPointer>>
  /\ UNCHANGED <<fixedVars, windowVars, planetVars, sliderVars, shapeVars,
                 surfaceVars, mouseDown>>

\* touchend listener
TouchEnd ==
  /\ variant = "preview"
  /\ (mouseDown /\ previewBody # NullId) => CanCreate(1)
  /\ cancelled' = FALSE
  /\ IF mouseDown
     THEN commitPreview
     ELSE /\ released' = {}
          /\ UNCHANGED <<placeVars, world, nextId>>
  /\ UNCHANGED <<fixedVars, windowVars, planetVars, sliderVars, shapeVars,
                 surfaceVars>>

----------------------------------------------------------------------------
(* Window, planet, sliders, shape buttons *)

\* resize listener: app.js rebuilds the surface, part_000 only sizes the canvas
Resize(w, h) ==
  /\ innerWidth' = w
  /\ innerHeight' = h
  /\ canvasWidth' = w
  /\ canvasHeight' = h - uiHeight
  /\ released' = {}
  /\ cancelled' = FALSE
  /\ IF variant = "preview"
     THEN /\ rebuilds < MaxResizes
          /\ LET s == createTrampoline(
                        [world |-> world, trampoline |-> trampoline,
                         ground |-> ground, nextSurfaceId |-> nextSurfaceId],
                        w, h - uiHeight)
             IN /\ world' = s.world
                /\ trampoline' = s.trampoline
                /\ ground' = s.ground
                /\ nextSurfaceId' = s.nextSurfaceId
          /\ rebuilds' = rebuilds + 1
     ELSE UNCHANGED <<world, trampoline, ground, nextSurfaceId, rebuilds>>
  /\ UNCHANGED <<fixedVars, planetVars, sliderVars, shapeVars, placeVars,
                 constraints, nextId>>

\* a change listener that forgets the background
planetChangeGravityOnly(p) ==
  IF p \notin DOMAIN planetData
  THEN UNCHANGED <<gravity, background>>
  ELSE /\ gravity' = planetData[p].gravity
       /\ UNCHANGED background

\* a change listener that takes the background of the planet selected before
planetChangeStale(p) ==
  IF p \notin DOMAIN planetData
  THEN UNCHANGED <<gravity, background>>
  ELSE /\ gravity' = planetData[p].gravity
       /\ background' = IF planetSelect \in DOMAIN planetData
                        THEN planetData[planetSelect].background
                        ELSE background

\* app.js planetSelect change listener
planetChangePreview(p) ==
  IF p \notin DOMAIN planetData
  THEN UNCHANGED <<gravity, background>>
  ELSE /\ gravity' = planetData[p].gravity
       /\ background' = planetData[p].background

\* part_000 planetSelect change listener
planetChangeElastic(p) ==
  /\ gravity' = gravityByPlanet(p)
  /\ UNCHANGED background

\* a planet change that also rebuilds the surface of app.js
PlanetChangeRebuilds(p) ==
  /\ planetSelect' = p
  /\ released' = {}
  /\ cancelled' = FALSE
  /\ IF variant = "preview"
     THEN /\ planetChangePreview(p)
          /\ rebuilds < MaxResizes
          /\ LET s == createTrampoline(
                        [world |-> world, trampoline |-> trampoline,
                         ground |-> ground, nextSurfaceId |-> nextSurfaceId],
                        innerWidth, canvasHeight)
             IN /\ world' = s.world
                /\ trampoline' = s.trampoline
                /\ ground' = s.ground
                /\ nextSurfaceId' = s.nextSurfaceId
          /\ rebuilds' = rebuilds + 1
     ELSE /\ planetChangeElastic(p)
          /\ UNCHANGED <<world, trampoline, ground, nextSurfaceId, rebuilds>>
  /\ UNCHANGED <<fixedVars, windowVars, sliderVars, shapeVars, placeVars,
                 constraints, nextId>>

\* the user picks p in the planet selector
PlanetChange(p) ==
  /\ planetSelect' = p
  /\ released' = {}
  /\ cancelled' = FALSE
  /\ IF variant = "preview" THEN planetChangePreview(p) ELSE planetChangeElastic(p)
  /\ UNCHANGED <<fixedVars, windowVars, sliderVars, shapeVars, placeVars,
                 world, surfaceVars, nextId>>

\* input listener of the mass slider
MassInput(v) ==
  /\ massSlider' = v
  /\ massValueLabel' = v
  /\ IF variant = "preview" THEN sizeValueLabel' = sizeSlider
     ELSE UNCHANGED sizeValueLabel
  /\ released' = {}
  /\ cancelled' = FALSE
  /\ UNCHANGED <<fixedVars, windowVars, planetVars, sizeSlider, shapeVars,
                 placeVars, world, surfaceVars, nextId>>

\* input listener of the size slider
SizeInput(v) ==
  /\ sizeSlider' = v
  /\ sizeValueLabel' = v
  /\ IF variant = "preview" THEN massValueLabel' = massSlider
     ELSE UNCHANGED massValueLabel
  /\ released' = {}
  /\ cancelled' = FALSE
  /\ UNCHANGED <<fixedVars, windowVars, planetVars, massSlider, shapeVars,
                 placeVars, world, surfaceVars, nextId>>

SpawnY == 50

\* part_000 createTriangle: the vertices of the path
\* 0 0 size 0 size/2 size*sin(pi/3)
createTriangle(size) ==
  <<[x |-> 0, y |-> 0], [x |-> Px(size), y |-> 0],
    [x |-> Px(size) \div 2, y |-> size * SinPi3Milli]>>

\* an addShape that takes its last two arguments as mass, size
addShapeMassFirst(id, type, x, y, size, mass) ==
  IF type \in {"circle", "square", "triangle"}
  THEN {[id |-> id, label |-> "shape", kind |-> type,
         geometry |-> CASE type = "circle" -> circle(Px(mass) \div 2)
                        [] type = "square" -> rectangle(Px(mass), Px(mass))
                        [] type = "triangle" -> fromVertices(createTriangle(mass)),
         mass |-> size, size |-> mass, x |-> x, y |-> y,
         isStatic |-> FALSE, isSensor |-> FALSE,
         restitution |-> "0.8", fillStyle |-> "#3498db"]}
  ELSE {}

\* part_000 addShape: the bodies it adds to the world
addShape(id, type, x, y, size, mass) ==
  IF type \in {"circle", "square", "triangle"}
  THEN {[id |-> id, label |-> "shape", kind |-> type,
         geometry |-> CASE type = "circle" -> circle(Px(size) \div 2)
                        [] type = "square" -> rectangle(Px(size), Px(size))
                        [] type = "triangle" -> fromVertices(createTriangle(size)),
         mass |-> mass, size |-> size, x |-> x, y |-> y,
         isStatic |-> FALSE, isSensor |-> FALSE,
         restitution |-> "0.8", fillStyle |-> "#3498db"]}
  ELSE {}

\* a click that marks its button and leaves the marks of the others
pressButtonKeepsOthers(btn) ==
  [shapeButtons EXCEPT ![btn] = [selected |-> TRUE, ariaPressed |-> "true"]]

\* app.js click listener, the loop over shapeButtons: classList.toggle and
\* setAttribute('aria-pressed') with b === btn
pressButton(btn) ==
  [b \in DOMAIN shapeButtons |->
     [selected |-> b = btn,
      ariaPressed |-> IF b = btn THEN "true" ELSE "false"]]

\* click listener of a shape button: app.js selects, part_000 spawns at
\* x = Math.random() * (innerWidth - size) + size / 2; r is Math.random() in
\* halves, and app.js draws no random number (r = 0)
ShapeClick(shape, r) ==
  /\ released' = {}
  /\ cancelled' = FALSE
  /\ IF variant = "preview"
     THEN /\ r = 0
          /\ selectedShape' = shape
          /\ shapeButtons' = pressButton(shape)
          /\ UNCHANGED <<world, nextId>>
     ELSE /\ CanCreate(1)
          /\ LET size == parseInt(sizeSlider)
                 mass == parseInt(massSlider)
                 x == (r * (innerWidth - size)) \div 2 + size \div 2
                 added == addShape(ShapeId(nextId), shape, x, SpawnY, size, mass)
             IN /\ world' = world \cup added
                /\ nextId' = IF added = {} THEN nextId ELSE nextId + 1
          /\ UNCHANGED shapeVars
  /\ UNCHANGED <<fixedVars, windowVars, planetVars, sliderVars, placeVars,
                 surfaceVars>>

----------------------------------------------------------------------------
(* The runner *)

\* the row below which the model stops following a falling body
FallLimit == IF variant = "preview" THEN MaxY ELSE SpawnY + MaxY

\* one step of the engine on one body: a dynamic shape falls under gravity,
\* sensor or not; an undefined gravity makes its position NaN
stepBody(b) ==
  IF b.isStatic \/ b.label # "shape" THEN b
  ELSE IF gravity = Undefined THEN [b EXCEPT !.y = NaN]
  ELSE IF b.y # NaN /\ b.y < FallLimit THEN [b EXCEPT !.y = b.y + 1]
  ELSE b

\* Runner.run: one tick of the engine
Tick ==
  /\ world' = {stepBody(b) : b \in world}
  /\ released' = {}
  /\ cancelled' = FALSE
  /\ UNCHANGED <<fixedVars, windowVars, planetVars, sliderVars, shapeVars,
                 placeVars, surfaceVars, nextId>>

----------------------------------------------------------------------------

Next ==
  \/ \E b \in Buttons, p \in Positions : MouseDown(b, p)
  \/ \E p \in Positions : MouseMove(p)
  \/ \E b \in Buttons : MouseUp(b)
  \/ ContextMenu
  \/ \E n \in {1, 2}, p \in Positions : TouchStart(n, p)
  \/ \E n \in {1, 2}, p \in Positions : TouchMove(n, p)
  \/ TouchEnd
  \/ \E w \in WindowWidths, h \in WindowHeights : Resize(w, h)
  \/ \E p \in PlanetInputs : PlanetChange(p)
  \/ \E v \in SliderValues : MassInput(v)
  \/ \E v \in SliderValues : SizeInput(v)
  \/ \E k \in ShapeButtons, r \in RandomSamples : ShapeClick(k, r)
  \/ Tick

Spec == Init /\ [][Next]_vars

TypeOK ==
  /\ variant \in Variants
  /\ previewBody \in Int
  /\ rebuilds \in 0..MaxResizes
  /\ mouseDown \in BOOLEAN
  /\ Created \in 0..(IF variant = "preview" THEN MaxCreated ELSE MaxSpawned)

----------------------------------------------------------------------------
(* The shape factories called directly, on arguments drawn at the start *)

MaxSize == 4          \* the largest size a factory is called with

KnownKinds == {"circle", "square", "triangle"}
ShapeKinds == KnownKinds \cup {"hexagon"}
FactorySizes == 1..MaxSize
FactoryMasses == {1, 10}

FactoryInputs ==
  {[shape |-> k, size |-> s, mass |-> m, pos |-> p, done |-> FALSE, added |-> {}] :
     k \in ShapeKinds, s \in FactorySizes, m \in FactoryMasses, p \in Positions}

FactoryInit == (InitPreview \/ InitElastic) /\ factory \in FactoryInputs

\* app.js: createBody(x, y, shape, mass, size) and Composite.add(world, body)
CallCreateBody ==
  /\ variant = "preview"
  /\ ~factory.done
  /\ LET body == createBody(ShapeId(nextId), factory.pos.x, factory.pos.y,
                            factory.shape, factory.mass, factory.size)
     IN /\ factory' = [factory EXCEPT !.done = TRUE, !.added = {body}]
        /\ world' = world \cup {body}
        /\ nextId' = nextId + 1
  /\ UNCHANGED <<variant, isPlacing, windowVars, planetVars, sliderVars,
                 shapeVars, placeVars, surfaceVars, released, cancelled>>

\* part_000: addShape(type, x, y, size, mass)
CallAddShape ==
  /\ variant = "elastic"
  /\ ~factory.done
  /\ LET added == addShape(ShapeId(nextId), factory.shape, factory.pos.x,
                           factory.pos.y, factory.size, factory.mass)
     IN /\ factory' = [factory EXCEPT !.done = TRUE, !.added = added]
        /\ world' = world \cup added
        /\ nextId' = IF added = {} THEN nextId ELSE nextId + 1
  /\ UNCHANGED <<variant, isPlacing, windowVars, planetVars, sliderVars,
                 shapeVars, placeVars, surfaceVars, released, cancelled>>

FactoryNext == CallCreateBody \/ CallAddShape

FactorySpec == FactoryInit /\ [][FactoryNext]_vars

\* the world part_000 builds at startup
ElasticStartWorld ==
  {trampolineBase(innerWidth, canvasHeight)}
    \cup Range(trampolineBodies(innerWidth, canvasHeight))

\* C11: createBody with a kind other than circle, square or triangle returns
\* what it returns for circle, a circle of radius size/2; addShape of part_000
\* with such a kind adds no body and leaves the world as it was.
C11_UnknownKindDefaults ==
  (factory.done /\ factory.shape \notin KnownKinds) =>
     /\ variant = "preview" =>
          /\ factory.added = {createBody(ShapeId(1), factory.pos.x, factory.pos.y,
                                         "circle", factory.mass, factory.size)}
          /\ \A b \in factory.added :
                /\ b.kind = "circle"
                /\ b.geometry.type = "circle"
                /\ 2 * b.geometry.circleRadius = Px(factory.size)
                /\ b \in world
     /\ variant = "elastic" =>
          /\ factory.added = {}
          /\ world = ElasticStartWorld

\* createBody was called with the kind hexagon
C11_Witness ==
  /\ variant = "preview"
  /\ factory.done
  /\ factory.shape = "hexagon"
  /\ Cardinality(RealBodies) = 1

\* the largest and the smallest of a set of integers
Max(S) == CHOOSE m \in S : \A n \in S : n <= m
Min(S) == CHOOSE m \in S : \A n \in S : m <= n

\* the bounding extent of a geometry: the width and height of body.bounds
Extent(g) ==
  CASE g.type = "circle" ->
         [width |-> 2 * g.circleRadius, height |-> 2 * g.circleRadius]
    [] g.type = "rectangle" -> [width |-> g.width, height |-> g.height]
    [] g.type = "polygon" ->
         LET xs == {g.vertices[i].x : i \in DOMAIN g.vertices}
             ys == {g.vertices[i].y : i \in DOMAIN g.vertices}
         IN [width |-> Max(xs) - Min(xs), height |-> Max(ys) - Min(ys)]

\* C13 as claimed: for circle, square and triangle and every size, the body
\* createBody returns is size wide and size high.
C13_ExtentIsSize ==
  (variant = "preview" /\ factory.shape \in KnownKinds) =>
     \A b \in factory.added :
       Extent(b.geometry) = [width |-> Px(factory.size), height |-> Px(factory.size)]

\* C13 amended: the circle has diameter size and the square has side size;
\* the triangle is equilateral with side size, so its bounding width is size
\* and its bounding height is size * sqrt(3) / 2.
C13_ExtentOfKind ==
  (variant = "preview" /\ factory.shape \in KnownKinds) =>
     \A b \in factory.added :
       /\ Extent(b.geometry).width = Px(factory.size)
       /\ factory.shape \in {"circle", "square"} =>
            Extent(b.geometry).height = Px(factory.size)
       /\ factory.shape = "triangle" =>
            /\ Extent(b.geometry).height = (factory.size * Sqrt3Milli) \div 2
            /\ Extent(b.geometry).height < Px(factory.size)

\* createBody built a triangle of size 3: 3 wide, 2.598 high
C13_Witness ==
  /\ variant = "preview"
  /\ factory.done
  /\ factory.shape = "triangle"
  /\ factory.size = 3
  /\ \E b \in RealBodies :
       Extent(b.geometry) = [width |-> 3000, height |-> 2598]

----------------------------------------------------------------------------
(* Properties of the placement state machine (app.js) *)

Release == MouseUp(0) \/ TouchEnd

\* C1: in every reachable state the world holds at most one preview body
\* (a sensor shape), whatever the interleaving of the events.
C1_AtMostOnePreview ==
  /\ Cardinality(PreviewBodies) <= 1
  /\ \A b \in PreviewBodies : b.id = previewBody

\* a second preview is in the world after the first one was cancelled
C1_Witness ==
  /\ Cardinality(PreviewBodies) = 1
  /\ mouseDown
  /\ nextId = 3
  /\ RealBodies = {}

\* C2: a left-button mouseup or a touchend in the Placing state ends in Idle,
\* with no preview left in the world and exactly one more real body.
C2_ReleaseCommitsOne ==
  [][(mouseDown /\ Release) =>
       /\ ~mouseDown'
       /\ previewBody' = NullId
       /\ PreviewBodies' = {}
       /\ Cardinality(RealBodies') = Cardinality(RealBodies) + 1]_vars

\* a release has just committed a body
C2_Witness ==
  /\ released # {}
  /\ ~mouseDown
  /\ PreviewBodies = {}
  /\ Cardinality(RealBodies) = 1

\* C3: the committed body is created at the position last given by a
\* pointer-down or pointer-move event of the gesture.
C3_CommitAtLastPointer ==
  \A r \in released :
    /\ Len(r.pointer) = 1
    /\ r.real.x = r.pointer[1].x
    /\ r.real.y = r.pointer[1].y

\* C4: the committed body has the mass and the size the sliders hold at the
\* release (the release leaves the sliders alone, so they still hold them).
C4_CommitUsesCurrentSliders ==
  \A r \in released :
    /\ r.real.mass = ToNumber(massSlider)
    /\ r.real.size = ToNumber(sizeSlider)

\* both sliders were moved between pointer-down and release
C4_Witness ==
  \E r \in released :
    /\ r.real.mass # r.preview.mass
    /\ r.real.size # r.preview.size
    /\ r.real.mass = ToNumber(massSlider)
    /\ r.real.size = ToNumber(sizeSlider)

\* C5: a contextmenu event in the Placing state removes the preview, returns
\* to Idle and leaves the real bodies as they are; a release that arrives in
\* the Idle state the cancel left commits nothing.
C5_CancelCommitsNothing ==
  [][/\ (mouseDown /\ ContextMenu) =>
          /\ ~mouseDown'
          /\ previewBody' = NullId
          /\ PreviewBodies' = {}
          /\ RealBodies' = RealBodies
     /\ (~mouseDown /\ Release) =>
          /\ RealBodies' = RealBodies
          /\ released' = {}
          /\ ~mouseDown']_vars

\* a cancel has just removed a preview
C5_Witness ==
  /\ cancelled
  /\ ~mouseDown
  /\ previewBody = NullId
  /\ PreviewBodies = {}

\* the identities of the bodies of a world
Ids(w) == {b.id : b \in w}

\* C14: a real body, once in the world, stays in it: every step keeps every
\* real body; a step removes only the preview (a release or a contextmenu
\* does) and the surface rectangles (a rebuild does).
C14_RealBodiesStay ==
  [][/\ Ids(RealBodies) \subseteq Ids(RealBodies')
     /\ \A b \in world :
          b.id \notin Ids(world') =>
            \/ /\ b.isSensor
               /\ b.id = previewBody
               /\ Release \/ ContextMenu
            \/ /\ b.label \in {"trampoline", "ground"}
               /\ rebuilds' = rebuilds + 1]_vars

\* a committed body is in the world after a resize rebuilt the surface
C14_Witness ==
  /\ variant = "preview"
  /\ Cardinality(RealBodies) = 1
  /\ rebuilds = 1
  /\ PreviewBodies = {}
  /\ ~mouseDown

----------------------------------------------------------------------------
(* Properties of the shape buttons (app.js) *)

\* the buttons that carry the class 'selected', and those with aria-pressed 'true'
SelectedButtons == {b \in DOMAIN shapeButtons : shapeButtons[b].selected}
PressedButtons == {b \in DOMAIN shapeButtons : shapeButtons[b].ariaPressed = "true"}

\* C12: in app.js exactly one shape kind is selected in every reachable
\* state, circle at startup: the button of selectedShape, and no other, has
\* the class 'selected' and aria-pressed 'true'; and a click on a shape
\* button makes its data-shape the selected kind.
C12_OneShapeSelected ==
  /\ [](variant = "preview" =>
          /\ selectedShape \in ShapeButtons
          /\ SelectedButtons = {selectedShape}
          /\ PressedButtons = {selectedShape})
  /\ [][\A k \in ShapeButtons :
          (variant = "preview" /\ ShapeClick(k, 0)) => selectedShape' = k]_vars

\* the triangle button was clicked: it alone is marked
C12_Witness ==
  /\ variant = "preview"
  /\ selectedShape = "triangle"
  /\ SelectedButtons = {"triangle"}
  /\ PressedButtons = {"triangle"}
  /\ ~shapeButtons["circle"].selected
  /\ shapeButtons["circle"].ariaPressed = "false"

----------------------------------------------------------------------------
(* Properties of the surface *)

SurfaceBodies == {b \in world : b.label # "shape"}

\* C6: after startup and after any resize the world of app.js holds exactly
\* one trampoline rectangle and one ground rectangle, the ones created last;
\* the chain variant keeps the one surface it built at startup.
C6_OneSurface ==
  /\ variant = "preview" =>
       /\ Cardinality(TrampolineBodies) = 1
       /\ Cardinality(GroundBodies) = 1
       /\ \A b \in TrampolineBodies : b.id = trampoline /\ b.id = nextSurfaceId - 2
       /\ \A b \in GroundBodies : b.id = ground /\ b.id = nextSurfaceId - 1
       /\ SurfaceBodies = TrampolineBodies \cup GroundBodies
  /\ variant = "elastic" =>
       /\ Cardinality({b \in world : b.label = "base"}) = 1
       /\ TrampolineBodies \cup GroundBodies = {}

\* a resize has rebuilt the surface
C6_Witness ==
  /\ variant = "preview"
  /\ rebuilds >= 1
  /\ Cardinality(SurfaceBodies) = 2

\* the surface bodies of the world were all replaced by new ones
SurfaceRebuilt ==
  /\ SurfaceBodies' # {}
  /\ {b.id : b \in SurfaceBodies'} \cap {b.id : b \in SurfaceBodies} = {}

----------------------------------------------------------------------------
(* Properties of the planet selector *)

\* the gravity scalars the presets are documented to have
DocumentedGravity(p) ==
  CASE p = "earth" -> "1" [] p = "moon" -> "0.165" [] p = "jupiter" -> "2.528"

KnownGravities == {DocumentedGravity(p) : p \in PlanetNames}

C8_PlanetInSync ==
  (variant = "preview" /\ planetSelect \in PlanetNames) =>
     /\ gravity = DocumentedGravity(planetSelect)
     /\ background = planetData[planetSelect].background

\* moon is selected while a committed body is in the world
C8_Witness ==
  /\ variant = "preview"
  /\ planetSelect = "moon"
  /\ gravity = "0.165"
  /\ RealBodies # {}

C10_UnknownPlanetKeepsDefault ==
  [][\A p \in PlanetInputs \ PlanetNames :
       PlanetChange(p) =>
         /\ gravity' \in KnownGravities
         /\ background' # Undefined]_vars

----------------------------------------------------------------------------
(* Properties of the chain surface (part_000) *)

Segments == {b \in world : b.label = "segment"}
Springs == {c \in constraints : c.label = "spring"}
Anchors == {c \in constraints : c.label = "anchor"}

\* the springs from segment a to segment b, and the anchors on segment b
SpringsBetween(a, b) == {c \in Springs : c.bodyA = a.id /\ c.bodyB = b.id}
AnchorsOn(b) == {c \in Anchors : c.bodyA = NullId /\ c.bodyB = b.id}

\* b is the next segment of the chain after a: the nearest one to its right
Neighbours(a, b) ==
  /\ a.x < b.x
  /\ ~\E c \in Segments : a.x < c.x /\ c.x < b.x

FirstSegment == CHOOSE b \in Segments : \A c \in Segments : b.x <= c.x
LastSegment == CHOOSE b \in Segments : \A c \in Segments : c.x <= b.x

\* neighbouring segments are linked by one spring of the length of their
\* spacing, other segments by none, and the two ends are anchored once each
ChainLinked ==
  /\ \A a, b \in Segments :
       IF Neighbours(a, b)
       THEN /\ Cardinality(SpringsBetween(a, b)) = 1
            /\ \A c \in SpringsBetween(a, b) : c.length = b.x - a.x
       ELSE SpringsBetween(a, b) = {}
  /\ FirstSegment # LastSegment
  /\ Cardinality(AnchorsOn(FirstSegment)) = 1
  /\ Cardinality(AnchorsOn(LastSegment)) = 1
  /\ \A c \in AnchorsOn(FirstSegment) :
       c.pointA = [x |-> FirstSegment.x, y |-> FirstSegment.y]
  /\ \A c \in AnchorsOn(LastSegment) :
       c.pointA = [x |-> LastSegment.x, y |-> LastSegment.y]
  /\ Cardinality(Anchors) = 2

\* C15 as claimed: the chain has exactly trampolineSegments (15) segment
\* bodies, neighbours are linked by one spring each with the spacing as rest
\* length, and the first and the last segment are anchored.
C15_ChainOfSegments ==
  variant = "elastic" =>
     /\ Cardinality(Segments) = trampolineSegments
     /\ ChainLinked

\* C15 amended: the chain has trampolineSegments + 1 (16) segment bodies and
\* trampolineSegments (15) springs; neighbours are linked by one spring each
\* with the spacing as rest length, and the first and the last segment are
\* anchored by one constraint each to a fixed point.
C15_ChainOfSegmentsPlusOne ==
  variant = "elastic" =>
     /\ Cardinality(Segments) = trampolineSegments + 1
     /\ Cardinality(Springs) = trampolineSegments
     /\ ChainLinked

\* the chain of part_000 with a spawned body above it
C15_Witness ==
  /\ variant = "elastic"
  /\ Cardinality(Segments) = 16
  /\ Cardinality(Springs) = 15
  /\ RealBodies # {}

----------------------------------------------------------------------------
(* Properties of the immediate spawn (part_000) *)

\* C16: in part_000 a click on a shape button adds exactly one body to the
\* world at once, of the kind of the button, a solid body and no preview, at
\* y = 50 and size/2 <= x < innerWidth - size/2, with the mass and the size
\* the sliders hold at the click; the placement state stays Idle.
C16_ClickSpawnsOne ==
  [][\A k \in ShapeButtons, r \in RandomSamples :
       (variant = "elastic" /\ ShapeClick(k, r)) =>
          /\ world \subseteq world'
          /\ Cardinality(world' \ world) = 1
          /\ \A b \in world' \ world :
               /\ b.label = "shape"
               /\ b.kind = k
               /\ ~b.isSensor
               /\ b.y = 50
               /\ b.size = ToNumber(sizeSlider)
               /\ b.mass = ToNumber(massSlider)
               /\ b.size <= 2 * b.x
               /\ 2 * b.x < 2 * innerWidth - b.size
          /\ PreviewBodies' = {}
          /\ ~mouseDown'
          /\ previewBody' = NullId]_vars

\* a click spawned a triangle of mass 10 and size 6 in the middle of the window
C16_Witness ==
  /\ variant = "elastic"
  /\ \E b \in RealBodies :
       /\ b.kind = "triangle"
       /\ b.mass = 10
       /\ b.size = 6
       /\ b.y = 50
       /\ b.x = 400
  /\ massSlider = <<"1", "0">>
  /\ sizeSlider = <<"6">>

----------------------------------------------------------------------------
(* Further properties of the placement state machine (app.js) *)

\* the Placing state: the pointer is down and a preview is shown
Placing == mouseDown /\ previewBody # NullId

\* C17: only a release (left mouseup, touchend) or a contextmenu leaves the
\* Placing state: every other step, a tick, a pointer move or press, a resize,
\* a planet change, a slider input, a shape click or a non-left mouseup,
\* leaves it Placing with the same preview body in the world.
C17_PlacingLeftByReleaseOrCancel ==
  [][(Placing /\ ~(Release \/ ContextMenu)) =>
       /\ mouseDown'
       /\ previewBody' = previewBody
       /\ previewBody \in Ids(PreviewBodies')]_vars

\* still Placing the circle preview after a tick, a resize, a planet change,
\* a click on the triangle button and an input on the size slider
C17_Witness ==
  /\ Placing
  /\ rebuilds = 1
  /\ planetSelect = "jupiter"
  /\ selectedShape = "triangle"
  /\ sizeSlider = <<"1", "0">>
  /\ \E b \in PreviewBodies :
       /\ b.id = previewBody
       /\ b.kind = "circle"
       /\ b.size = 6
       /\ lastPointer = <<[x |-> 0, y |-> 0]>>
       /\ b.y = 1

\* C18: in every reachable state mouseDown is true exactly when a preview
\* body exists, that is previewBody is not null and the body is in the world.
C18_MouseDownIffPreview ==
  mouseDown <=> (previewBody # NullId /\ HasId(world, previewBody))

\* a touch has put a preview at (1, 1) after a resize
C18_Witness ==
  /\ mouseDown
  /\ previewBody # NullId
  /\ HasId(world, previewBody)
  /\ rebuilds = 1
  /\ lastPointer = <<[x |-> 1, y |-> 1]>>

\* the Idle state: the pointer is up and no preview is shown
Idle == ~mouseDown /\ previewBody = NullId

\* the events the Idle state ignores
IdleEvent ==
  \/ \E p \in Positions : MouseMove(p)
  \/ \E n \in {1, 2}, p \in Positions : TouchMove(n, p)
  \/ \E b \in Buttons : MouseUp(b)
  \/ TouchEnd
  \/ ContextMenu
  \/ \E b \in Buttons \ {0}, p \in Positions : MouseDown(b, p)
  \/ \E p \in Positions : TouchStart(2, p)

\* C19: in the Idle state a pointer move, a release, a contextmenu, a
\* non-left mousedown and a touchstart of two touches leave the bodies of the
\* world and the placement state as they are: no preview, no committed body.
C19_IdleIgnoresEvents ==
  [][(Idle /\ IdleEvent) =>
       /\ world' = world
       /\ nextId' = nextId
       /\ mouseDown' = mouseDown
       /\ previewBody' = previewBody
       /\ released' = {}
       /\ Idle']_vars

\* Idle again after a cancelled gesture, one more event handled, nothing added
C19_Witness ==
  /\ variant = "preview"
  /\ Idle
  /\ ~cancelled
  /\ nextId = 2
  /\ RealBodies = {}
  /\ PreviewBodies = {}
  /\ lastPointer = <<>>

\* C20: the body committed on release has the shape kind, the mass and the
\* size of the preview body shown during the gesture, whatever shape-button
\* clicks and slider inputs came between pointer-down and release.
C20_CommitMatchesPreview ==
  \A r \in released :
    /\ r.real.kind = r.preview.kind
    /\ r.real.mass = r.preview.mass
    /\ r.real.size = r.preview.size

====
